---------------------------- MODULE Spec2Model ----------------------------
(***************************************************************************)
(* Differential Evolution engine of the DE notebook (src/unnamed/part_000).*)
(*                                                                         *)
(* The notebook ships `differential_evolution` as an exercise: the         *)
(* signature, the result type, the two loops and, for each of the four     *)
(* steps, a prescription of what the step does.  The model follows that    *)
(* prescription step by step.  Where the notebook is silent (boundary      *)
(* policy, history bookkeeping, best tracking) the design document of the  *)
(* engine is followed.                                                     *)
(*                                                                         *)
(* Real numbers are exact fixed-point values: every coordinate is an       *)
(* integer count of grid steps, and the generation-0 grid is coarse enough *)
(* (Grid) that F * (b - c) stays on the grid for MaxGen generations, so no *)
(* rounding is modelled or needed.  Indices are 0-based as in the source.  *)
(***************************************************************************)
EXTENDS Integers, Sequences, FiniteSets, TLC

\* ------------------------------------------------------------------ bounds
MaxGen == 2
MaxPop == 4
MaxSeed == 2
\* Generations of a call whose arguments or objective may be faulty.
MaxGenAny == 1
\* Generations of a run whose targets are evolved by parallel workers.
MaxGenParallel == 1
\* OptimizerVerifier: runs per verification and best values of a run.
MaxSeedsCount == 3
MaxBestVal == 2
\* FunctionVerifier: greatest entry and greatest length of `sizes`.
MaxSize == 3
MaxSizes == 2
\* FunctionParser: greatest number of tokens of a model response.
MaxLen == 4

\* ---------------------------------------------------------------- helpers
None == -1

Pow2(n) == 2 ^ n

\* Coarsest grid step: halving it once per generation stays integral.
Grid == Pow2(MaxGen)

Range0(n) == 0 .. (n - 1)

Min2(x, y) == IF x <= y THEN x ELSE y
Max2(x, y) == IF x >= y THEN x ELSE y

\* -------------------------------------------------------- inputs of a run
\* The `bounds` argument: a 2-D box with one side centred on the optimum and
\* one side starting at it, and a 1-D box that is not centred on the optimum
\* (so that a generation-0 population can miss it).
SearchSpaces == { << <<-Grid, Grid>>, <<0, Grid>> >>, << <<-Grid, 2 * Grid>> >> }

\* F as an exact fraction num/den; CR and the draws r in tenths.
FValues == { [num |-> 1, den |-> 2], [num |-> 1, den |-> 1] }
CRValues == { 0, 9 }
RValues == { 0, 9 }

VARIABLES
    bounds, pop_size, F, CR, max_gen, seed,   \* arguments of the call
    objective,                                \* the `func` argument
    pc,                                       \* position in the function
    population, fitness,                      \* completed generation
    new_population, new_fitness,              \* generation being built
    generation, i,                            \* loop counters
    a, b, c, mutant_vector,                   \* locals of Exercise 2
    j_rand, r, trial_vector,                  \* locals of Exercise 3
    history, best_vector, best_value,         \* fields of DEResult
    workers, lock,                            \* per-generation parallelism
    evaluations,                              \* calls of func made so far
    parser,                                   \* a call of FunctionParser.parse
    function_verifier,                        \* a FunctionVerifier and its verify
    optimizer_verifier                        \* an OptimizerVerifier and its verify

args == <<bounds, pop_size, F, CR, max_gen, seed, objective>>
locals == <<a, b, c, mutant_vector, j_rand, r, trial_vector>>
result == <<history, best_vector, best_value>>
parallel == <<workers, lock>>
\* the objects of the second notebook (src/unnamed/part_001)
llm == <<parser, function_verifier, optimizer_verifier>>
vars == <<args, pc, population, fitness, new_population, new_fitness,
          generation, i, locals, result, parallel, evaluations, llm>>

\* everything of the Differential Evolution notebook but pc
de == <<args, population, fitness, new_population, new_fitness, generation,
        i, locals, result, parallel, evaluations>>

dimensions == Len(bounds)
lower_bounds == [d \in Range0(dimensions) |-> bounds[d + 1][1]]
upper_bounds == [d \in Range0(dimensions) |-> bounds[d + 1][2]]

\* ------------------------------------------------------ objective function
RECURSIVE SumSq(_, _)
SumSq(x, n) == IF n = 0 THEN 0 ELSE x[n - 1] * x[n - 1] + SumSq(x, n - 1)

sphere(x) == SumSq(x, dimensions)

func(x) == sphere(x)

\* The objectives a caller may pass: the sphere, a callable that raises on
\* every input, and one that raises beyond one grid step on the first axis.
Objectives == {"sphere", "raises_always", "raises_above"}

\* The call func(x) raises instead of returning a value.
Raises(x) ==
    \/ objective = "raises_always"
    \/ objective = "raises_above" /\ dimensions > 0 /\ x[0] > Grid

\* ------------------------------------------------- Exercise 1: sampling
\* Number of generation-0 grid points of dimension d inside [lower, upper].
\* (The distance is taken unsigned: a pair with lower > upper is sampled
\* between its two ends, as lower + (upper - lower) * u does.)
Distance(d) ==
    IF upper_bounds[d] >= lower_bounds[d]
       THEN upper_bounds[d] - lower_bounds[d]
       ELSE lower_bounds[d] - upper_bounds[d]

Direction(d) == IF upper_bounds[d] >= lower_bounds[d] THEN 1 ELSE -1

NPoints(d) == Distance(d) \div Grid + 1

\* A sampler that can land one grid step above the upper bound.
UniformPastUpper(s, k, d) ==
    lower_bounds[d]
       + Direction(d) * Grid * ((s * (k + 1) + k * d + d) % (NPoints(d) + 1))

\* The draw of the uniform sampler for coordinate d of individual k under
\* random stream s: a point of the grid of [lower_bounds[d], upper_bounds[d]].
Uniform(s, k, d) ==
    lower_bounds[d] + Direction(d) * Grid * ((s * (k + 1) + k * d + d) % NPoints(d))

\* An initialisation that creates one individual too few.
InitialPopulationShort ==
    [k \in Range0(pop_size - 1) |-> [d \in Range0(dimensions) |-> Uniform(seed, k, d)]]

InitialPopulation ==
    [k \in Range0(pop_size) |-> [d \in Range0(dimensions) |-> Uniform(seed, k, d)]]

Evaluate(pop) == [k \in DOMAIN pop |-> func(pop[k])]

\* np.argmin: the first index holding the least value.
ArgMin(fit) ==
    CHOOSE k \in DOMAIN fit :
        /\ \A m \in DOMAIN fit : fit[k] <= fit[m]
        /\ \A m \in DOMAIN fit : m < k => fit[m] > fit[k]

\* ------------------------------------------------- Exercise 2: mutation
\* Indices the donors may be drawn from: every slot but the target.
\* Donor indices that forget to exclude the target.
CandidatesWithTarget(target) == Range0(pop_size)

\* Donor indices drawn from a range that is one short: the last slot is
\* never a donor.
CandidatesWithoutLast(target) == Range0(pop_size - 1) \ {target}

Candidates(target) == Range0(pop_size) \ {target}

\* F * x, exact on the grid.
Scale(x) == (F.num * x) \div F.den

\* The difference taken the wrong way round: v = a + F * (c - b).
DifferentialSwapped(pop, ia, ib, ic) ==
    [d \in Range0(dimensions) |-> pop[ia][d] + Scale(pop[ic][d] - pop[ib][d])]

\* v = a + F * (b - c), coordinate-wise.
Differential(pop, ia, ib, ic) ==
    [d \in Range0(dimensions) |-> pop[ia][d] + Scale(pop[ib][d] - pop[ic][d])]

\* Boundary handling: clamp every coordinate to the nearest bound.
Clip(v) ==
    [d \in Range0(dimensions) |-> Min2(Max2(v[d], lower_bounds[d]), upper_bounds[d])]

\* ------------------------------------------------ Exercise 3: crossover
\* Crossover that compares the draw with <= instead of <.
BinomialInclusive(target, mutant, jr, draws) ==
    [j \in Range0(dimensions) |->
        IF draws[j] <= CR \/ j = jr THEN mutant[j] ELSE target[j]]

\* Crossover that forgets to force coordinate j_rand.
BinomialUnforced(target, mutant, jr, draws) ==
    [j \in Range0(dimensions) |->
        IF draws[j] < CR THEN mutant[j] ELSE target[j]]

Binomial(target, mutant, jr, draws) ==
    [j \in Range0(dimensions) |->
        IF draws[j] < CR \/ j = jr THEN mutant[j] ELSE target[j]]

\* ------------------------------------------------ Exercise 4: selection
\* Selection with the comparison inverted: the worse vector wins.
ReplacesWorse(trial_fitness, target_fitness) == trial_fitness >= target_fitness

\* Selection without a comparison: the trial always takes the slot.
ReplacesAlways(trial_fitness, target_fitness) == TRUE

\* "If the trial vector is better than or equal to the target vector".
Replaces(trial_fitness, target_fitness) == trial_fitness <= target_fitness

\* --------------------------------------------------------- loop guards
\* A loop that runs one generation too many.
OneGenerationMore == generation <= max_gen

MoreGenerations == generation < max_gen

\* A target loop that stops one slot early.
SkipLastTarget(k) == k < pop_size - 1

MoreTargets(k) == k < pop_size

\* ---------------------------------------------------------------- Init
Init ==
    /\ bounds \in SearchSpaces
    /\ pop_size \in 4 .. MaxPop
    /\ F \in FValues
    /\ CR \in CRValues
    /\ max_gen \in 0 .. MaxGen
    /\ seed \in 1 .. MaxSeed
    /\ objective = "sphere"
    /\ pc = "init"
    /\ population = << >>
    /\ fitness = << >>
    /\ new_population = << >>
    /\ new_fitness = << >>
    /\ generation = 0
    /\ i = None
    /\ a = None /\ b = None /\ c = None
    /\ mutant_vector = << >>
    /\ j_rand = None
    /\ r = << >>
    /\ trial_vector = << >>
    /\ history = << >>
    /\ best_vector = << >>
    /\ best_value = None
    /\ workers = << >>
    /\ lock = None
    /\ evaluations = 0
    /\ parser = None
    /\ function_verifier = None
    /\ optimizer_verifier = None

\* ------------------------------------------------------------- actions
Initialize ==
    /\ pc = "init"
    /\ \A k \in Range0(pop_size) : ~Raises(InitialPopulation[k])
    /\ population' = InitialPopulation
    /\ fitness' = Evaluate(InitialPopulation)
    /\ best_vector' = InitialPopulation[ArgMin(Evaluate(InitialPopulation))]
    /\ best_value' = Evaluate(InitialPopulation)[ArgMin(Evaluate(InitialPopulation))]
    /\ pc' = "generation"
    /\ evaluations' = evaluations + pop_size
    /\ UNCHANGED <<args, llm, parallel, new_population, new_fitness, generation, i, locals, history>>

BeginGeneration ==
    /\ pc = "generation"
    /\ MoreGenerations
    /\ new_population' = population
    /\ new_fitness' = fitness
    /\ i' = 0
    /\ pc' = "mutate"
    /\ UNCHANGED <<args, llm, parallel, evaluations, population, fitness, generation, locals, result>>

Mutate ==
    /\ pc = "mutate"
    /\ \E ia \in Candidates(i) :
       \E ib \in Candidates(i) \ {ia} :
       \E ic \in Candidates(i) \ {ia, ib} :
          /\ a' = ia /\ b' = ib /\ c' = ic
          /\ mutant_vector' = Clip(Differential(population, ia, ib, ic))
    /\ pc' = "crossover"
    /\ UNCHANGED <<args, llm, parallel, evaluations, population, fitness, new_population, new_fitness,
                   generation, i, j_rand, r, trial_vector, result>>

Crossover ==
    /\ pc = "crossover"
    /\ \E jr \in Range0(dimensions) :
       \E draws \in [Range0(dimensions) -> RValues] :
          /\ j_rand' = jr
          /\ r' = draws
          /\ trial_vector' = Binomial(population[i], mutant_vector, jr, draws)
    /\ pc' = "select"
    /\ UNCHANGED <<args, llm, parallel, evaluations, population, fitness, new_population, new_fitness,
                   generation, i, a, b, c, mutant_vector, result>>

\* Selection that writes the winner into the population being read
\* (asynchronous update) as well as into new_population.
SelectInPlace ==
    /\ pc = "select"
    /\ IF Replaces(func(trial_vector), fitness[i])
          THEN /\ new_population' = [new_population EXCEPT ![i] = trial_vector]
               /\ new_fitness' = [new_fitness EXCEPT ![i] = func(trial_vector)]
               /\ population' = [population EXCEPT ![i] = trial_vector]
               /\ fitness' = [fitness EXCEPT ![i] = func(trial_vector)]
          ELSE /\ UNCHANGED <<new_population, new_fitness, population, fitness>>
    /\ i' = i + 1
    /\ pc' = IF MoreTargets(i + 1) THEN "mutate" ELSE "end_generation"
    /\ a' = None /\ b' = None /\ c' = None
    /\ mutant_vector' = << >>
    /\ j_rand' = None
    /\ r' = << >>
    /\ trial_vector' = << >>
    /\ evaluations' = evaluations + 1
    /\ UNCHANGED <<args, llm, parallel, generation, result>>

\* Selection on a history that holds a reference to the array being built:
\* the winner shows through in the snapshot appended last.
SelectAliased ==
    /\ pc = "select"
    /\ IF Replaces(func(trial_vector), fitness[i])
          THEN /\ new_population' = [new_population EXCEPT ![i] = trial_vector]
               /\ new_fitness' = [new_fitness EXCEPT ![i] = func(trial_vector)]
               /\ history' = IF history = << >> THEN history
                              ELSE [history EXCEPT ![Len(history)][i] = trial_vector]
          ELSE /\ UNCHANGED <<new_population, new_fitness, history>>
    /\ i' = i + 1
    /\ pc' = IF MoreTargets(i + 1) THEN "mutate" ELSE "end_generation"
    /\ a' = None /\ b' = None /\ c' = None
    /\ mutant_vector' = << >>
    /\ j_rand' = None
    /\ r' = << >>
    /\ trial_vector' = << >>
    /\ evaluations' = evaluations + 1
    /\ UNCHANGED <<args, llm, parallel, population, fitness, generation, best_vector, best_value>>

\* Selection that evaluates the target again instead of using its cached
\* fitness: two calls of func per selection.
SelectReevaluates ==
    /\ pc = "select"
    /\ IF Replaces(func(trial_vector), func(population[i]))
          THEN /\ new_population' = [new_population EXCEPT ![i] = trial_vector]
               /\ new_fitness' = [new_fitness EXCEPT ![i] = func(trial_vector)]
          ELSE /\ UNCHANGED <<new_population, new_fitness>>
    /\ i' = i + 1
    /\ pc' = IF MoreTargets(i + 1) THEN "mutate" ELSE "end_generation"
    /\ a' = None /\ b' = None /\ c' = None
    /\ mutant_vector' = << >>
    /\ j_rand' = None
    /\ r' = << >>
    /\ trial_vector' = << >>
    /\ evaluations' = evaluations + 2
    /\ UNCHANGED <<args, llm, parallel, population, fitness, generation, result>>

\* Selection that stores the winning vector but leaves the cached fitness
\* of the slot as it was: the cache keeps the loser's value.
SelectKeepsFitness ==
    /\ pc = "select"
    /\ IF Replaces(func(trial_vector), fitness[i])
          THEN /\ new_population' = [new_population EXCEPT ![i] = trial_vector]
               /\ UNCHANGED new_fitness
          ELSE /\ UNCHANGED <<new_population, new_fitness>>
    /\ i' = i + 1
    /\ pc' = IF MoreTargets(i + 1) THEN "mutate" ELSE "end_generation"
    /\ a' = None /\ b' = None /\ c' = None
    /\ mutant_vector' = << >>
    /\ j_rand' = None
    /\ r' = << >>
    /\ trial_vector' = << >>
    /\ evaluations' = evaluations + 1
    /\ UNCHANGED <<args, llm, parallel, population, fitness, generation, result>>

Select ==
    /\ pc = "select"
    /\ ~Raises(trial_vector)
    /\ IF Replaces(func(trial_vector), fitness[i])
          THEN /\ new_population' = [new_population EXCEPT ![i] = trial_vector]
               /\ new_fitness' = [new_fitness EXCEPT ![i] = func(trial_vector)]
          ELSE /\ UNCHANGED <<new_population, new_fitness>>
    /\ i' = i + 1
    /\ pc' = IF MoreTargets(i + 1) THEN "mutate" ELSE "end_generation"
    \* the locals are dead here: each is assigned again before it is read
    /\ a' = None /\ b' = None /\ c' = None
    /\ mutant_vector' = << >>
    /\ j_rand' = None
    /\ r' = << >>
    /\ trial_vector' = << >>
    /\ evaluations' = evaluations + 1
    /\ UNCHANGED <<args, llm, parallel, population, fitness, generation, result>>

\* np.argmax: the first index holding the greatest value.
ArgMax(fit) ==
    CHOOSE k \in DOMAIN fit :
        /\ \A m \in DOMAIN fit : fit[k] >= fit[m]
        /\ \A m \in DOMAIN fit : m < k => fit[m] < fit[k]

\* A generation end that reports the generation's worst individual as the
\* best, without comparing it with the best so far.
EndGenerationWorst ==
    /\ pc = "end_generation"
    /\ population' = new_population
    /\ fitness' = new_fitness
    /\ history' = Append(history, new_population)
    /\ best_vector' = new_population[ArgMax(new_fitness)]
    /\ best_value' = new_fitness[ArgMax(new_fitness)]
    /\ generation' = generation + 1
    /\ pc' = "generation"
    /\ UNCHANGED <<args, llm, parallel, evaluations, new_population, new_fitness, i, locals>>

EndGeneration ==
    /\ pc = "end_generation"
    /\ population' = new_population
    /\ fitness' = new_fitness
    /\ history' = Append(history, new_population)
    /\ IF new_fitness[ArgMin(new_fitness)] < best_value
          THEN /\ best_vector' = new_population[ArgMin(new_fitness)]
               /\ best_value' = new_fitness[ArgMin(new_fitness)]
          ELSE /\ UNCHANGED <<best_vector, best_value>>
    /\ generation' = generation + 1
    /\ pc' = "generation"
    /\ UNCHANGED <<args, llm, parallel, evaluations, new_population, new_fitness, i, locals>>

Return ==
    /\ pc = "generation"
    /\ ~MoreGenerations
    /\ pc' = "done"
    /\ UNCHANGED <<args, llm, parallel, evaluations, population, fitness, new_population, new_fitness,
                   generation, i, locals, result>>

Next ==
    \/ Initialize
    \/ BeginGeneration
    \/ Mutate
    \/ Crossover
    \/ Select
    \/ EndGeneration
    \/ Return

Spec == Init /\ [][Next]_vars

\* ------------------------------- one generation evolved by parallel workers
\* A 1-D box starting at the optimum: no generation-0 individual sits on
\* the optimum, and trials of different targets improve by different amounts.
ParallelSpaces == { << <<0, 4 * Grid>> >> }

\* CR: float = 0.9, in tenths.
DefaultCR == 9

InitParallel ==
    /\ bounds \in ParallelSpaces
    /\ pop_size \in 4 .. MaxPop
    /\ F \in FValues
    /\ CR = DefaultCR
    /\ max_gen \in 0 .. MaxGenParallel
    /\ seed \in 1 .. MaxSeed
    /\ objective = "sphere"
    /\ pc = "init"
    /\ population = << >>
    /\ fitness = << >>
    /\ new_population = << >>
    /\ new_fitness = << >>
    /\ generation = 0
    /\ i = None
    /\ a = None /\ b = None /\ c = None
    /\ mutant_vector = << >>
    /\ j_rand = None
    /\ r = << >>
    /\ trial_vector = << >>
    /\ history = << >>
    /\ best_vector = << >>
    /\ best_value = None
    /\ workers = << >>
    /\ lock = None
    /\ evaluations = 0
    /\ parser = None
    /\ function_verifier = None
    /\ optimizer_verifier = None

\* A worker that has not started: it owns the locals of its target.  A
\* local is given up (None) at the step after which it is never read.
Worker0 ==
    [pc |-> "mutate", a |-> None, b |-> None, c |-> None,
     mutant_vector |-> << >>, j_rand |-> None, r |-> << >>,
     trial_vector |-> << >>, seen |-> None]

\* Fork: one worker per target index, all reading `population`.
Fork ==
    /\ pc = "generation"
    /\ MoreGenerations
    /\ new_population' = population
    /\ new_fitness' = fitness
    /\ workers' = [k \in Range0(pop_size) |-> Worker0]
    /\ pc' = "workers"
    /\ UNCHANGED <<args, llm, evaluations, population, fitness, generation, i, locals, result, lock>>

WorkerMutate(k) ==
    /\ pc = "workers"
    /\ workers[k].pc = "mutate"
    /\ \E ia \in Candidates(k) :
       \E ib \in Candidates(k) \ {ia} :
       \E ic \in Candidates(k) \ {ia, ib} :
          workers' = [workers EXCEPT ![k] =
                         [@ EXCEPT !.pc = "crossover",
                                   !.a = ia, !.b = ib, !.c = ic,
                                   !.mutant_vector =
                                       Clip(Differential(population, ia, ib, ic))]]
    /\ UNCHANGED <<args, llm, evaluations, pc, population, fitness, new_population, new_fitness,
                   generation, i, locals, result, lock>>

WorkerCrossover(k) ==
    /\ pc = "workers"
    /\ workers[k].pc = "crossover"
    /\ \E jr \in Range0(dimensions) :
       \E draws \in [Range0(dimensions) -> RValues] :
          workers' = [workers EXCEPT ![k] =
                         [Worker0 EXCEPT !.pc = "select",
                                         !.j_rand = jr,
                                         !.r = draws,
                                         !.trial_vector =
                                             Binomial(population[k],
                                                      workers[k].mutant_vector,
                                                      jr, draws)]]
    /\ UNCHANGED <<args, llm, evaluations, pc, population, fitness, new_population, new_fitness,
                   generation, i, locals, result, lock>>

\* A worker that writes its winner into the population the others read.
WorkerSelectInPlace(k) ==
    /\ pc = "workers"
    /\ workers[k].pc = "select"
    /\ IF Replaces(func(workers[k].trial_vector), fitness[k])
          THEN /\ new_population' =
                      [new_population EXCEPT ![k] = workers[k].trial_vector]
               /\ new_fitness' =
                      [new_fitness EXCEPT ![k] = func(workers[k].trial_vector)]
               /\ population' =
                      [population EXCEPT ![k] = workers[k].trial_vector]
               /\ fitness' =
                      [fitness EXCEPT ![k] = func(workers[k].trial_vector)]
          ELSE /\ UNCHANGED <<new_population, new_fitness, population, fitness>>
    /\ workers' = [workers EXCEPT ![k] = [Worker0 EXCEPT !.pc = "acquire"]]
    /\ evaluations' = evaluations + 1
    /\ UNCHANGED <<args, llm, pc, generation, i, locals, result, lock>>

\* Each worker writes only its own slot of new_population.
WorkerSelect(k) ==
    /\ pc = "workers"
    /\ workers[k].pc = "select"
    /\ IF Replaces(func(workers[k].trial_vector), fitness[k])
          THEN /\ new_population' =
                      [new_population EXCEPT ![k] = workers[k].trial_vector]
               /\ new_fitness' =
                      [new_fitness EXCEPT ![k] = func(workers[k].trial_vector)]
          ELSE /\ UNCHANGED <<new_population, new_fitness>>
    /\ workers' = [workers EXCEPT ![k] = [Worker0 EXCEPT !.pc = "acquire"]]
    /\ evaluations' = evaluations + 1
    /\ UNCHANGED <<args, llm, pc, population, fitness, generation, i, locals,
                   result, lock>>

\* Entry to the update of the best tracker that does not wait for the lock.
WorkerAcquireUnlocked(k) ==
    /\ pc = "workers"
    /\ workers[k].pc = "acquire"
    /\ lock' = k
    /\ workers' = [workers EXCEPT ![k].pc = "read"]
    /\ UNCHANGED <<args, llm, evaluations, pc, population, fitness, new_population, new_fitness,
                   generation, i, locals, result>>

\* Exclusive access to the best tracker: enter only when nobody holds it.
WorkerAcquire(k) ==
    /\ pc = "workers"
    /\ workers[k].pc = "acquire"
    /\ lock = None
    /\ lock' = k
    /\ workers' = [workers EXCEPT ![k].pc = "read"]
    /\ UNCHANGED <<args, llm, evaluations, pc, population, fitness, new_population, new_fitness,
                   generation, i, locals, result>>

WorkerRead(k) ==
    /\ pc = "workers"
    /\ workers[k].pc = "read"
    /\ workers' = [workers EXCEPT ![k] = [@ EXCEPT !.pc = "write",
                                                   !.seen = best_value]]
    /\ UNCHANGED <<args, llm, evaluations, pc, population, fitness, new_population, new_fitness,
                   generation, i, locals, result, lock>>

WorkerWrite(k) ==
    /\ pc = "workers"
    /\ workers[k].pc = "write"
    /\ IF new_fitness[k] < workers[k].seen
          THEN /\ best_vector' = new_population[k]
               /\ best_value' = new_fitness[k]
          ELSE /\ UNCHANGED <<best_vector, best_value>>
    /\ workers' = [workers EXCEPT ![k] = [@ EXCEPT !.pc = "release",
                                                   !.seen = None]]
    /\ UNCHANGED <<args, llm, evaluations, pc, population, fitness, new_population, new_fitness,
                   generation, i, locals, history, lock>>

WorkerRelease(k) ==
    /\ pc = "workers"
    /\ workers[k].pc = "release"
    /\ lock' = None
    /\ workers' = [workers EXCEPT ![k].pc = "finished"]
    /\ UNCHANGED <<args, llm, evaluations, pc, population, fitness, new_population, new_fitness,
                   generation, i, locals, result>>

\* Barrier: the generation is published once every worker has finished.
Join ==
    /\ pc = "workers"
    /\ \A k \in Range0(pop_size) : workers[k].pc = "finished"
    /\ population' = new_population
    /\ fitness' = new_fitness
    /\ history' = Append(history, new_population)
    /\ generation' = generation + 1
    /\ workers' = << >>
    /\ pc' = "generation"
    /\ UNCHANGED <<args, llm, evaluations, new_population, new_fitness, i, locals, best_vector,
                   best_value, lock>>

NextParallel ==
    \/ Initialize
    \/ Fork
    \/ \E k \in Range0(pop_size) : WorkerMutate(k)
    \/ \E k \in Range0(pop_size) : WorkerCrossover(k)
    \/ \E k \in Range0(pop_size) : WorkerSelect(k)
    \/ \E k \in Range0(pop_size) : WorkerAcquire(k)
    \/ \E k \in Range0(pop_size) : WorkerRead(k)
    \/ \E k \in Range0(pop_size) : WorkerWrite(k)
    \/ \E k \in Range0(pop_size) : WorkerRelease(k)
    \/ Join
    \/ Return

ParallelSpec == InitParallel /\ [][NextParallel]_vars

\* ------------------------------------------- calls with any arguments
\* Search spaces a caller can also pass: no dimension at all, and a pair
\* with lower > upper.
MalformedSpaces == { << >>, << <<Grid, -Grid>> >> }

Malformed(bs) == bs = << >> \/ \E d \in 1 .. Len(bs) : bs[d][1] > bs[d][2]

\* The function body starts with dimensions = len(bounds): nothing is
\* checked, so every argument value enters the run.
InitAny ==
    /\ bounds \in SearchSpaces \cup MalformedSpaces
    /\ pop_size \in 1 .. MaxPop
    /\ F \in FValues
    /\ CR \in CRValues
    /\ max_gen \in 0 .. MaxGenAny
    /\ seed \in 1 .. MaxSeed
    /\ objective \in Objectives
    /\ pc = "init"
    /\ population = << >>
    /\ fitness = << >>
    /\ new_population = << >>
    /\ new_fitness = << >>
    /\ generation = 0
    /\ i = None
    /\ a = None /\ b = None /\ c = None
    /\ mutant_vector = << >>
    /\ j_rand = None
    /\ r = << >>
    /\ trial_vector = << >>
    /\ history = << >>
    /\ best_vector = << >>
    /\ best_value = None
    /\ workers = << >>
    /\ lock = None
    /\ evaluations = 0
    /\ parser = None
    /\ function_verifier = None
    /\ optimizer_verifier = None

\* The individuals are evaluated in index order: the first that raises.
FirstRaising(pop) ==
    CHOOSE k \in DOMAIN pop :
        /\ Raises(pop[k])
        /\ \A m \in DOMAIN pop : m < k => ~Raises(pop[m])

\* The initial evaluation raises: the population exists, no fitness does,
\* and the exception leaves the function.
InitializeRaises ==
    /\ pc = "init"
    /\ \E k \in Range0(pop_size) : Raises(InitialPopulation[k])
    /\ population' = InitialPopulation
    /\ pc' = "raised"
    /\ evaluations' = evaluations + FirstRaising(InitialPopulation) + 1
    /\ UNCHANGED <<args, llm, parallel, fitness, new_population, new_fitness, generation, i,
                   locals, result>>

\* Three distinct donors other than the target do not exist: the draw
\* without replacement cannot complete.
MutateFails ==
    /\ pc = "mutate"
    /\ Cardinality(Candidates(i)) < 3
    /\ pc' = "failed"
    /\ UNCHANGED <<args, llm, parallel, evaluations, population, fitness, new_population, new_fitness,
                   generation, i, locals, result>>

\* There is no dimension index to draw j_rand from.
CrossoverFails ==
    /\ pc = "crossover"
    /\ Range0(dimensions) = {}
    /\ pc' = "failed"
    /\ UNCHANGED <<args, llm, parallel, evaluations, population, fitness, new_population, new_fitness,
                   generation, i, locals, result>>

\* Evaluation of the trial that swallows the exception and keeps the target.
SelectSwallows ==
    /\ pc = "select"
    /\ Raises(trial_vector)
    /\ i' = i + 1
    /\ pc' = IF MoreTargets(i + 1) THEN "mutate" ELSE "end_generation"
    /\ a' = None /\ b' = None /\ c' = None
    /\ mutant_vector' = << >>
    /\ j_rand' = None
    /\ r' = << >>
    /\ trial_vector' = << >>
    /\ evaluations' = evaluations + 1
    /\ UNCHANGED <<args, llm, parallel, population, fitness, new_population, new_fitness,
                   generation, result>>

\* The evaluation of the trial raises: nothing is written, the exception
\* leaves the function.
SelectRaises ==
    /\ pc = "select"
    /\ Raises(trial_vector)
    /\ pc' = "raised"
    /\ evaluations' = evaluations + 1
    /\ UNCHANGED <<args, llm, parallel, population, fitness, new_population, new_fitness,
                   generation, i, locals, result>>

NextAny ==
    \/ Initialize
    \/ InitializeRaises
    \/ BeginGeneration
    \/ Mutate
    \/ MutateFails
    \/ Crossover
    \/ CrossoverFails
    \/ Select
    \/ SelectRaises
    \/ EndGeneration
    \/ Return

AnyCallSpec == InitAny /\ [][NextAny]_vars

\* ------------------------------------------------ the function as shipped
\* The function with its first statement deleted: the body below it runs.
RaiseRemoved ==
    /\ pc = "init"
    /\ population' = InitialPopulation
    /\ fitness' = Evaluate(InitialPopulation)
    /\ best_vector' = InitialPopulation[ArgMin(Evaluate(InitialPopulation))]
    /\ best_value' = Evaluate(InitialPopulation)[ArgMin(Evaluate(InitialPopulation))]
    /\ pc' = "generation"
    /\ evaluations' = evaluations + pop_size
    /\ UNCHANGED <<args, llm, parallel, new_population, new_fitness, generation, i,
                   locals, history>>

\* raise NotImplementedError("Not implemented"): the first statement of the
\* body as shipped; the exception leaves the function and ends the cell.
RaiseNotImplemented ==
    /\ pc = "init"
    /\ pc' = "not_implemented"
    /\ UNCHANGED <<args, llm, parallel, evaluations, population, fitness, new_population,
                   new_fitness, generation, i, locals, result>>

NextShipped == RaiseNotImplemented

ShippedSpec == InitAny /\ [][NextShipped]_vars

\* ======================================================================
\*          The second notebook (src/unnamed/part_001): LLM tools
\* ======================================================================
\* No call of differential_evolution is part of these objects.
NoDE ==
    /\ bounds = << >>
    /\ pop_size = 0
    /\ F = None
    /\ CR = None
    /\ max_gen = 0
    /\ seed = None
    /\ objective = None
    /\ population = << >>
    /\ fitness = << >>
    /\ new_population = << >>
    /\ new_fitness = << >>
    /\ generation = 0
    /\ i = None
    /\ a = None /\ b = None /\ c = None
    /\ mutant_vector = << >>
    /\ j_rand = None
    /\ r = << >>
    /\ trial_vector = << >>
    /\ history = << >>
    /\ best_vector = << >>
    /\ best_value = None
    /\ workers = << >>
    /\ lock = None
    /\ evaluations = 0

\* sum of the first n entries of a list
RECURSIVE SumTo(_, _)
SumTo(xs, n) == IF n = 0 THEN 0 ELSE xs[n] + SumTo(xs, n - 1)

Sum(xs) == SumTo(xs, Len(xs))

\* A float result kept as an exact fraction.
Fraction(n, d) == [num |-> n, den |-> d]

\* ---------------------------------------------------- FunctionParser.parse
\* A model response is a sequence of tokens: the opening fence ```python,
\* a bare fence ```, white space, two function definitions, a statement that is valid
\* syntax and raises when executed, and an unbalanced parenthesis, which no
\* Python source may contain.
Opener == "fence_python"

Fence == "fence"

Space == " "

Tokens == {Opener, Fence, Space, "def f", "def g", "raise", "("}

Responses == UNION { [1 .. len -> Tokens] : len \in 0 .. MaxLen }

FunctionNames == {"f", "g"}

\* The closing ``` of the pattern also matches the head of ```python.
IsFence(t) == t \in {Fence, Opener}

Least(S) == CHOOSE x \in S : \A y \in S : x <= y

RECURSIVE LStrip(_)
LStrip(xs) == IF xs # << >> /\ Head(xs) = Space THEN LStrip(Tail(xs)) ELSE xs

RECURSIVE RStrip(_)
RStrip(xs) ==
    IF xs # << >> /\ xs[Len(xs)] = Space
       THEN RStrip(SubSeq(xs, 1, Len(xs) - 1))
       ELSE xs

\* The positions after p where the closing ``` can match.
Closers(text, p) == { q \in p + 1 .. Len(text) : IsFence(text[q]) }

\* The positions where the whole pattern matches.
Matches(text) ==
    { p \in 1 .. Len(text) : text[p] = Opener /\ Closers(text, p) # {} }

\* re.search(r"```python\s*(.*?)\s*```", text, re.DOTALL): the leftmost
\* match, its group as short as can be and without the white space that
\* the two \s* take; match is FALSE for the result None.
extract_code(text) ==
    IF Matches(text) = {}
       THEN [match |-> FALSE, group |-> << >>]
       ELSE LET p == Least(Matches(text))
                q == Least(Closers(text, p))
            IN  [match |-> TRUE,
                 group |-> RStrip(LStrip(SubSeq(text, p + 1, q - 1)))]

\* ast.parse(function_str) raises SyntaxError or not.
validate_function_syntax(function_str) ==
    \A k \in 1 .. Len(function_str) : function_str[k] # "("

\* not function_str: None and the empty string alike.
Falsy(function_str) == ~function_str.match \/ function_str.group = << >>

\* The names exec binds in the namespace.
Defined(function_str) ==
    { name \in FunctionNames :
          \E k \in 1 .. Len(function_str) : function_str[k] = "def " \o name }

\* exec raises at a raise statement.
ExecFails(function_str) ==
    \E k \in 1 .. Len(function_str) : function_str[k] = "raise"

InitParser ==
    /\ NoDE
    /\ function_verifier = None
    /\ optimizer_verifier = None
    /\ pc = "parse"
    /\ \E text \in Responses :
       \E name \in FunctionNames :
          parser = [model_response |-> text, function_name |-> name,
                    function_str |-> [match |-> FALSE, group |-> << >>],
                    executed |-> FALSE, namespace |-> {}, returned |-> ""]

\* function_str = FunctionParser.extract_code(model_response)
Extract ==
    /\ pc = "parse"
    /\ parser' = [parser EXCEPT !.function_str = extract_code(parser.model_response)]
    /\ pc' = "extracted"
    /\ UNCHANGED <<de, function_verifier, optimizer_verifier>>

\* if not function_str: return None
NoFunctionFound ==
    /\ pc = "extracted"
    /\ Falsy(parser.function_str)
    /\ parser' = [parser EXCEPT !.returned = "None"]
    /\ pc' = "returned"
    /\ UNCHANGED <<de, function_verifier, optimizer_verifier>>

\* if not validate_function_syntax(function_str): return None
InvalidSyntax ==
    /\ pc = "extracted"
    /\ ~Falsy(parser.function_str)
    /\ ~validate_function_syntax(parser.function_str.group)
    /\ parser' = [parser EXCEPT !.returned = "None"]
    /\ pc' = "returned"
    /\ UNCHANGED <<de, function_verifier, optimizer_verifier>>

\* A parse that executes whatever it extracted.
ExecUnvalidated ==
    /\ pc = "extracted"
    /\ ~Falsy(parser.function_str)
    /\ ~ExecFails(parser.function_str.group)
    /\ parser' = [parser EXCEPT !.executed = TRUE,
                                !.namespace = Defined(parser.function_str.group)]
    /\ pc' = "executed"
    /\ UNCHANGED <<de, function_verifier, optimizer_verifier>>

\* exec(function_str, namespace), reached past the two early returns.
Exec ==
    /\ pc = "extracted"
    /\ ~Falsy(parser.function_str)
    /\ validate_function_syntax(parser.function_str.group)
    /\ ~ExecFails(parser.function_str.group)
    /\ parser' = [parser EXCEPT !.executed = TRUE,
                                !.namespace = Defined(parser.function_str.group)]
    /\ pc' = "executed"
    /\ UNCHANGED <<de, function_verifier, optimizer_verifier>>

\* exec raises: the exception leaves parse.
ExecRaises ==
    /\ pc = "extracted"
    /\ ~Falsy(parser.function_str)
    /\ validate_function_syntax(parser.function_str.group)
    /\ ExecFails(parser.function_str.group)
    /\ parser' = [parser EXCEPT !.executed = TRUE]
    /\ pc' = "raised"
    /\ UNCHANGED <<de, function_verifier, optimizer_verifier>>

\* return namespace[function_name]
ReturnFunction ==
    /\ pc = "executed"
    /\ parser.function_name \in parser.namespace
    /\ parser' = [parser EXCEPT !.returned = parser.function_name]
    /\ pc' = "returned"
    /\ UNCHANGED <<de, function_verifier, optimizer_verifier>>

\* namespace[function_name] raises KeyError.
LookupFails ==
    /\ pc = "executed"
    /\ parser.function_name \notin parser.namespace
    /\ pc' = "key_error"
    /\ UNCHANGED <<de, llm>>

NextParser ==
    \/ Extract
    \/ NoFunctionFound
    \/ InvalidSyntax
    \/ Exec
    \/ ExecRaises
    \/ ReturnFunction
    \/ LookupFails

ParserSpec == InitParser /\ [][NextParser]_vars

\* ------------------------------------------------- FunctionVerifier.verify
\* The lists `sizes` a verifier is constructed with.
SizesLists == UNION { [1 .. len -> 0 .. MaxSize] : len \in 0 .. MaxSizes }

\* The functions under test, known by what they do with a list:
\*   sum_formula   the intended solution, n * (n + 1) / 2 - sum(numbers)
\*   max_plus_one  max(numbers) + 1, which raises ValueError on an empty list
\*   raises        raises an Exception on every list
\*   exits         calls sys.exit: SystemExit is no subclass of Exception
Funcs == {"sum_formula", "max_plus_one", "raises", "exits"}

Elements(xs) == { xs[k] : k \in 1 .. Len(xs) }

MaxOf(xs) == CHOOSE x \in Elements(xs) : \A y \in Elements(xs) : x >= y

\* func(data) raises an exception of class Exception.
RaisesException(f, data) ==
    \/ f = "raises"
    \/ f = "max_plus_one" /\ data = << >>

\* The value func(data) returns when it returns.
Result(f, data) ==
    IF f = "sum_formula"
       THEN ((Len(data) + 1) * (Len(data) + 2)) \div 2 - Sum(data)
       ELSE MaxOf(data) + 1

\* list(range(n)): the list that starts at 0.
FullFromZero(n) == [k \in 1 .. n |-> k - 1]

\* full = list(range(1, n + 1))
Full(n) == [k \in 1 .. n |-> k]

\* data.pop(idx): the value removed and the list left (idx is 0-based).
Popped(full, idx) == full[idx + 1]

Remaining(full, idx) == SubSeq(full, 1, idx) \o SubSeq(full, idx + 2, Len(full))

\* self._rng.shuffle(data): every order of the same entries.
Shuffles(xs) ==
    { p \in [1 .. Len(xs) -> Elements(xs)] :
          \A j, k \in 1 .. Len(xs) : j # k => p[j] # p[k] }

\* The generator resumes at (position, idx): sizes whose range(n) is used
\* up are left behind.  position is the 0-based index into sizes.
RECURSIVE Resume(_, _, _)
Resume(sizes, position, idx) ==
    IF position >= Len(sizes) \/ idx < sizes[position + 1]
       THEN [position |-> position, idx |-> idx]
       ELSE Resume(sizes, position + 1, 0)

InitFunctionVerifier ==
    /\ NoDE
    /\ parser = None
    /\ optimizer_verifier = None
    /\ pc = "verify"
    /\ \E sizes \in SizesLists :
       \E f \in Funcs :
          function_verifier =
              [sizes |-> sizes, func |-> f, position |-> 0, idx |-> 0,
               data |-> << >>, missing |-> None,
               solved |-> 0, total |-> 0, returned |-> None]

\* The generator yields its next (data, missing).
TestCase ==
    /\ pc = "verify"
    /\ LET at == Resume(function_verifier.sizes, function_verifier.position,
                        function_verifier.idx)
           full == Full(function_verifier.sizes[at.position + 1])
       IN  /\ at.position < Len(function_verifier.sizes)
           /\ \E shuffled \in Shuffles(Remaining(full, at.idx)) :
                 function_verifier' =
                     [function_verifier EXCEPT
                         !.position = at.position,
                         !.idx = at.idx,
                         !.data = shuffled,
                         !.missing = Popped(full, at.idx)]
    /\ pc' = "call"
    /\ UNCHANGED <<de, parser, optimizer_verifier>>

\* func returns: every returning call counts as solved.
FuncReturnsUncompared ==
    /\ pc = "call"
    /\ function_verifier.func # "exits"
    /\ ~RaisesException(function_verifier.func, function_verifier.data)
    /\ function_verifier' =
          [function_verifier EXCEPT
              !.solved = @ + 1,
              !.total = @ + 1,
              !.idx = @ + 1]
    /\ pc' = "verify"
    /\ UNCHANGED <<de, parser, optimizer_verifier>>

\* result = func(data.copy()); if result == expected: solved += 1; total += 1
FuncReturns ==
    /\ pc = "call"
    /\ function_verifier.func # "exits"
    /\ ~RaisesException(function_verifier.func, function_verifier.data)
    /\ function_verifier' =
          [function_verifier EXCEPT
              !.solved =
                  IF Result(function_verifier.func, function_verifier.data)
                        = function_verifier.missing
                     THEN @ + 1 ELSE @,
              !.total = @ + 1,
              !.idx = @ + 1]
    /\ pc' = "verify"
    /\ UNCHANGED <<de, parser, optimizer_verifier>>

\* A verify without the except clause: the exception leaves verify.
FuncRaisesPropagates ==
    /\ pc = "call"
    /\ RaisesException(function_verifier.func, function_verifier.data)
    /\ pc' = "raised"
    /\ UNCHANGED <<de, llm>>

\* except Exception: the error is printed; total += 1
FuncRaises ==
    /\ pc = "call"
    /\ RaisesException(function_verifier.func, function_verifier.data)
    /\ function_verifier' =
          [function_verifier EXCEPT !.total = @ + 1, !.idx = @ + 1]
    /\ pc' = "verify"
    /\ UNCHANGED <<de, parser, optimizer_verifier>>

\* SystemExit is not caught by `except Exception`.
FuncExits ==
    /\ pc = "call"
    /\ function_verifier.func = "exits"
    /\ pc' = "exited"
    /\ UNCHANGED <<de, llm>>

\* solved / total if total > 0 else 0.0
Rate(solved, total) == IF total > 0 THEN Fraction(solved, total) ELSE Fraction(0, 1)

ReturnRate ==
    /\ pc = "verify"
    /\ Resume(function_verifier.sizes, function_verifier.position,
              function_verifier.idx).position >= Len(function_verifier.sizes)
    /\ function_verifier' =
          [function_verifier EXCEPT
              !.returned = Rate(function_verifier.solved, function_verifier.total)]
    /\ pc' = "returned"
    /\ UNCHANGED <<de, parser, optimizer_verifier>>

NextFunctionVerifier ==
    \/ TestCase
    \/ FuncReturns
    \/ FuncRaises
    \/ FuncExits
    \/ ReturnRate

FunctionVerifierSpec == InitFunctionVerifier /\ [][NextFunctionVerifier]_vars

\* ------------------------------------------------ OptimizerVerifier.verify
\* The optimizer under test is known by the best value it returns under
\* each seed; best_val is None while the local is unbound.
InitOptimizerVerifier ==
    /\ NoDE
    /\ parser = None
    /\ function_verifier = None
    /\ pc = "verify"
    /\ \E n \in 0 .. MaxSeedsCount :
       \E opt \in [Range0(n) -> 0 .. MaxBestVal] :
          optimizer_verifier =
              [seeds_count |-> n, optimizer |-> opt, seed |-> 0,
               results |-> << >>, best_val |-> None, returned |-> None]

\* np.mean(best_val): the mean of one scalar is the scalar.
Mean(best_val) == Fraction(best_val, 1)

\* One pass of `for seed in range(self.seeds_count)`.
RunOptimizer ==
    /\ pc = "verify"
    /\ optimizer_verifier.seed < optimizer_verifier.seeds_count
    /\ optimizer_verifier' =
          [optimizer_verifier EXCEPT
              !.best_val = optimizer_verifier.optimizer[optimizer_verifier.seed],
              !.results = Append(@, optimizer_verifier.optimizer[optimizer_verifier.seed]),
              !.seed = @ + 1]
    /\ UNCHANGED <<de, pc, parser, function_verifier>>

ReturnMean ==
    /\ pc = "verify"
    /\ optimizer_verifier.seed = optimizer_verifier.seeds_count
    /\ optimizer_verifier.best_val # None
    /\ optimizer_verifier' =
          [optimizer_verifier EXCEPT
              !.returned = Mean(optimizer_verifier.best_val)]
    /\ pc' = "returned"
    /\ UNCHANGED <<de, parser, function_verifier>>

\* The loop never ran: best_val is unbound at the return statement.
MeanUnbound ==
    /\ pc = "verify"
    /\ optimizer_verifier.seed = optimizer_verifier.seeds_count
    /\ optimizer_verifier.best_val = None
    /\ pc' = "unbound_local_error"
    /\ UNCHANGED <<de, llm>>

NextOptimizerVerifier ==
    \/ RunOptimizer
    \/ ReturnMean
    \/ MeanUnbound

OptimizerVerifierSpec == InitOptimizerVerifier /\ [][NextOptimizerVerifier]_vars

\* ======================================================================
\*                              Properties
\* ======================================================================
InBounds(v) ==
    \A d \in Range0(dimensions) : lower_bounds[d] <= v[d] /\ v[d] <= upper_bounds[d]

\* F.den * (a + F * (b - c)) for coordinate d of the current donors: the raw
\* mutant coordinate, kept as a numerator so that nothing is divided.
RawTimesDen(d) ==
    F.den * population[a][d] + F.num * (population[b][d] - population[c][d])

\* The completed population of the previous generation.
Completed == IF generation = 0 THEN InitialPopulation ELSE history[generation]

\* C1: greedy selection is strict: the trial replaces the target in the next
\* generation iff trial_fitness < target_fitness; on a tie the incumbent and
\* its cached fitness are kept.
C1_StrictSelection ==
    [][pc = "select" =>
        IF func(trial_vector) < fitness[i]
           THEN /\ new_population'[i] = trial_vector
                /\ new_fitness'[i] = func(trial_vector)
           ELSE /\ new_population'[i] = population[i]
                /\ new_fitness'[i] = fitness[i]]_vars

\* C2: non-worsening: the fitness of every slot in generation g+1 is at most
\* its fitness in generation g.
C2_NonWorsening ==
    [][pc = "end_generation" =>
        \A k \in Range0(pop_size) : fitness'[k] <= fitness[k]]_vars

C2_Witness ==
    /\ pc = "generation"
    /\ generation = 2
    /\ \E k \in Range0(pop_size) :
          /\ fitness[k] < func(history[1][k])
          /\ func(history[1][k]) < func(InitialPopulation[k])

\* C3: bounds invariant: every coordinate of every individual (generation 0,
\* every clamped mutant, every trial, every population, every snapshot) lies
\* within [lower_d, upper_d].
C3_BoundsInvariant ==
    /\ \A k \in DOMAIN population : InBounds(population[k])
    /\ \A k \in DOMAIN new_population : InBounds(new_population[k])
    /\ pc \in {"crossover", "select"} => InBounds(mutant_vector)
    /\ pc = "select" => InBounds(trial_vector)
    /\ \A g \in DOMAIN history : \A k \in DOMAIN history[g] : InBounds(history[g][k])
    /\ pc # "init" => InBounds(best_vector)

C3_Witness ==
    /\ pc = "select"
    /\ \E d \in Range0(dimensions) :
          /\ RawTimesDen(d) < F.den * lower_bounds[d]
          /\ trial_vector[d] = lower_bounds[d]
          /\ population[i][d] # lower_bounds[d]

\* C4: population size invariant: exactly pop_size individuals at generation
\* 0, after every generation and at return.
C4_PopulationSize ==
    /\ pc # "init" => DOMAIN population = Range0(pop_size)
    /\ pc \in {"mutate", "crossover", "select", "end_generation"} =>
          DOMAIN new_population = Range0(pop_size)
    /\ \A g \in DOMAIN history : DOMAIN history[g] = Range0(pop_size)
    /\ pc # "init" => Cardinality(DOMAIN population) = pop_size

C4_Witness ==
    /\ pc = "done"
    /\ Len(history) = 2
    /\ history[1] # InitialPopulation
    /\ history[2] # history[1]
    /\ Cardinality(DOMAIN population) = pop_size

\* C5: the three donor indices are valid population indices, pairwise
\* distinct, and each different from the target index.
C5_DistinctDonors ==
    pc \in {"crossover", "select"} =>
        /\ {a, b, c} \subseteq Range0(pop_size)
        /\ a # b /\ a # c /\ b # c
        /\ a # i /\ b # i /\ c # i

C5_Witness ==
    /\ pc = "crossover"
    /\ i = 1
    /\ a = 3 /\ b = 0 /\ c = 2

\* C6: each coordinate of the mutant is a + F * (b - c) clamped to the
\* nearest bound: lower_d below, upper_d above, the raw value otherwise.
C6_MutantClamped ==
    pc \in {"crossover", "select"} =>
        \A d \in Range0(dimensions) :
            /\ RawTimesDen(d) < F.den * lower_bounds[d] =>
                  mutant_vector[d] = lower_bounds[d]
            /\ RawTimesDen(d) > F.den * upper_bounds[d] =>
                  mutant_vector[d] = upper_bounds[d]
            /\ (/\ F.den * lower_bounds[d] <= RawTimesDen(d)
                /\ RawTimesDen(d) <= F.den * upper_bounds[d]) =>
                  F.den * mutant_vector[d] = RawTimesDen(d)

C6_Witness ==
    /\ pc = "crossover"
    /\ F.den = 2
    /\ \E d, e \in Range0(dimensions) :
          /\ RawTimesDen(d) > F.den * upper_bounds[d]
          /\ mutant_vector[d] = upper_bounds[d]
          /\ F.den * lower_bounds[e] < RawTimesDen(e)
          /\ RawTimesDen(e) < F.den * upper_bounds[e]
          /\ population[b][e] # population[c][e]
          /\ F.den * mutant_vector[e] = RawTimesDen(e)

\* C7: trial[j] is mutant[j] if r_j < CR or j = j_rand and target[j]
\* otherwise; j_rand is one dimension index; the trial has the dimensionality
\* of target and mutant.
C7_CrossoverRule ==
    pc = "select" =>
        /\ j_rand \in Range0(dimensions)
        /\ DOMAIN trial_vector = DOMAIN population[i]
        /\ DOMAIN trial_vector = DOMAIN mutant_vector
        /\ \A j \in Range0(dimensions) :
              /\ (r[j] < CR \/ j = j_rand) => trial_vector[j] = mutant_vector[j]
              /\ ~(r[j] < CR \/ j = j_rand) => trial_vector[j] = population[i][j]

C7_Witness ==
    /\ pc = "select"
    /\ CR = 9
    /\ r[j_rand] = 9
    /\ mutant_vector[j_rand] # population[i][j_rand]
    /\ trial_vector[j_rand] = mutant_vector[j_rand]
    /\ \E j \in Range0(dimensions) :
          /\ j # j_rand /\ r[j] = 9
          /\ mutant_vector[j] # population[i][j]
          /\ trial_vector[j] = population[i][j]

\* C8: trial divergence: coordinate j_rand of the trial always comes from the
\* mutant, CR = 0 included, so the trial differs from the target whenever
\* mutant[j_rand] # target[j_rand].
C8_TrialDivergence ==
    pc = "select" =>
        /\ trial_vector[j_rand] = mutant_vector[j_rand]
        /\ mutant_vector[j_rand] # population[i][j_rand] =>
              trial_vector # population[i]

C8_Witness ==
    /\ pc = "select"
    /\ CR = 0
    /\ dimensions = 2
    /\ mutant_vector[j_rand] # population[i][j_rand]
    /\ trial_vector # population[i]
    /\ trial_vector # mutant_vector

\* What one step on slot i may read and write under a synchronous update.
SynchronousStep ==
    /\ population = Completed
    /\ fitness = [k \in Range0(pop_size) |-> func(Completed[k])]
    /\ population' = population
    /\ fitness' = fitness
    /\ pc = "mutate" =>
          \A d \in Range0(dimensions) :
             mutant_vector'[d] =
                Min2(Max2(Completed[a'][d]
                          + (F.num * (Completed[b'][d] - Completed[c'][d])) \div F.den,
                          lower_bounds[d]),
                     upper_bounds[d])
    /\ pc = "crossover" =>
          \A j \in Range0(dimensions) :
             trial_vector'[j] \in {mutant_vector[j], Completed[i][j]}
    /\ pc = "select" =>
          /\ new_population'[i] \in {trial_vector, Completed[i]}
          /\ new_population'[i] # trial_vector =>
                func(trial_vector) > func(Completed[i])
          /\ func(trial_vector) > func(Completed[i]) =>
                new_population'[i] = Completed[i]

\* C9: synchronous generation update: donors, target vector and target
\* fitness of slot i all come from the completed previous generation; a
\* replacement decided for a slot k < i is invisible to slot i.
C9_SynchronousUpdate ==
    [][(pc \in {"mutate", "crossover", "select"}) => SynchronousStep]_vars

C9_Witness ==
    /\ pc = "crossover"
    /\ generation = 1
    /\ a < i
    /\ new_population[a] # population[a]
    /\ population = history[1]
    /\ \E d \in Range0(dimensions) :
          F.den * mutant_vector[d] = RawTimesDen(d)
          /\ F.den * mutant_vector[d] #
                F.den * new_population[a][d]
                   + F.num * (new_population[b][d] - new_population[c][d])

\* C10: history length: a run with max_gen = G returns exactly G snapshots,
\* snapshot g being the post-selection population of the g-th completed
\* generation, in generation order; max_gen = 1 yields exactly one.
C10_HistoryLength ==
    /\ Len(history) = generation
    /\ pc = "done" => Len(history) = max_gen
    /\ (pc \in {"generation", "done"} /\ generation >= 1) =>
          history[generation] = population
    /\ pc = "end_generation" => Len(history) = generation

C10_Witness ==
    /\ pc = "done"
    /\ max_gen = 1
    /\ Len(history) = 1
    /\ history[1] = population
    /\ history[1] # InitialPopulation

\* C11: history is append-only: no step changes a coordinate of a snapshot
\* already appended, no entry is removed or reordered, and history grows by
\* exactly one entry, only at a generation boundary.
C11_HistoryAppendOnly ==
    [][/\ Len(history') >= Len(history)
       /\ \A g \in 1 .. Len(history) : history'[g] = history[g]
       /\ IF pc = "end_generation"
             THEN Len(history') = Len(history) + 1
             ELSE Len(history') = Len(history)]_vars

C11_Witness ==
    /\ pc = "end_generation"
    /\ generation = 1
    /\ Len(history) = 1
    /\ \E k \in Range0(pop_size) :
          \E d \in Range0(dimensions) : new_population[k][d] # history[1][k][d]

\* C12: the tracked best value never increases from one generation to the
\* next, and it changes only when a strictly lower objective value has been
\* evaluated.
C12_BestMonotone ==
    [][pc # "init" =>
        /\ best_value' <= best_value
        /\ best_value' # best_value =>
              /\ best_value' < best_value
              /\ \E k \in Range0(pop_size) :
                    /\ new_population[k] = best_vector'
                    /\ SumSq(new_population[k], dimensions) = best_value']_vars

C12_Witness ==
    /\ pc = "generation"
    /\ generation = 2
    /\ best_value < SumSq(InitialPopulation[ArgMin(Evaluate(InitialPopulation))], dimensions)
    /\ \A k \in Range0(pop_size) : InitialPopulation[k] # best_vector
    /\ \E k \in Range0(pop_size) : population[k] = best_vector

\* Steps of one generation: the loop head, three steps per target, the
\* generation boundary.
StepsPerGeneration == 3 * pop_size + 2

\* Steps a run still has to take before it has returned.
StepsLeft ==
    CASE pc = "init" -> 1 + max_gen * StepsPerGeneration + 1
      [] pc = "generation" -> (max_gen - generation) * StepsPerGeneration + 1
      [] pc = "mutate" ->
            (max_gen - generation - 1) * StepsPerGeneration + 3 * (pop_size - i) + 2
      [] pc = "crossover" ->
            (max_gen - generation - 1) * StepsPerGeneration + 3 * (pop_size - i) + 1
      [] pc = "select" ->
            (max_gen - generation - 1) * StepsPerGeneration + 3 * (pop_size - i)
      [] pc = "end_generation" ->
            (max_gen - generation - 1) * StepsPerGeneration + 2
      [] pc = "done" -> 0

FairSpec == Spec /\ WF_vars(Next)

EvaluationRaises ==
    \/ pc = "init" /\ \E k \in Range0(pop_size) : Raises(InitialPopulation[k])
    \/ pc = "select" /\ Raises(trial_vector)

\* C16: if the objective raises on any evaluation (initial fitness or a
\* trial), the run aborts there and the exception reaches the caller: no
\* result is returned, the candidate is not evaluated again and no further
\* generation is executed.
C16_ObjectiveFailurePropagates ==
    /\ [][EvaluationRaises =>
            /\ pc' = "raised"
            /\ UNCHANGED <<fitness, new_population, new_fitness, generation, i,
                           result>>]_vars
    /\ [](pc = "raised" => ~ENABLED NextAny)
    /\ [](pc = "done" =>
            /\ \A k \in Range0(pop_size) : ~Raises(population[k])
            /\ \A g \in 1 .. Len(history) :
                  \A k \in Range0(pop_size) : ~Raises(history[g][k]))

C16_Witness ==
    /\ pc = "raised"
    /\ objective = "raises_above"
    /\ fitness # << >>
    /\ i > 0
    /\ Raises(trial_vector)
    /\ \E k \in Range0(i) : new_population[k] # population[k]
    /\ history = << >>

\* C17 compares two runs of the engine and C20 is a statement about the
\* outcome of one run of 50 individuals over 100 generations under typical
\* random draws; neither is a property of the reachable states or steps of
\* this model.

\* Worker k performs its mutation, crossover or selection in this step.
Mutates(k) == workers[k].pc = "mutate" /\ workers'[k].pc = "crossover"
Crosses(k) == workers[k].pc = "crossover" /\ workers'[k].pc = "select"
Selects(k) == workers[k].pc = "select" /\ workers'[k].pc = "acquire"

\* The step of worker k yields what the sequential loop yields for target k
\* from the completed population under the draws of the step.
MutantAsSequential(k) ==
    workers'[k].mutant_vector =
        Clip(Differential(Completed, workers'[k].a, workers'[k].b, workers'[k].c))

TrialAsSequential(k) ==
    workers'[k].trial_vector =
        Binomial(Completed[k], workers[k].mutant_vector,
                 workers'[k].j_rand, workers'[k].r)

SlotAsSequential(k) ==
    LET u == IF Replaces(func(workers[k].trial_vector), Evaluate(Completed)[k])
                THEN workers[k].trial_vector
                ELSE Completed[k]
    IN  /\ new_population'[k] = u
        /\ new_fitness'[k] = func(u)

\* A step of the workers leaves every slot alone except the slot of a
\* worker that performs its selection.
OtherSlotsKept ==
    \A k \in Range0(pop_size) :
        ~Selects(k) =>
            /\ new_population'[k] = new_population[k]
            /\ new_fitness'[k] = new_fitness[k]

\* C18: when the mutate/crossover/select operations of one generation are
\* run by one worker per target in any interleaving, with per-target draws
\* and a barrier between generations, the next population and fitness are
\* those the sequential index-order loop computes from the same draws.
C18_ParallelEqualsSequential ==
    /\ [][(pc = "workers" /\ pc' = "workers") =>
            /\ \A k \in Range0(pop_size) : Mutates(k) => MutantAsSequential(k)
            /\ \A k \in Range0(pop_size) : Crosses(k) => TrialAsSequential(k)
            /\ \A k \in Range0(pop_size) : Selects(k) => SlotAsSequential(k)
            /\ OtherSlotsKept]_vars
    /\ [][(pc = "workers" /\ pc' # "workers") =>
            /\ \A k \in Range0(pop_size) : workers[k].pc = "finished"
            /\ population' = new_population
            /\ fitness' = new_fitness
            /\ fitness' = Evaluate(new_population)]_vars

C18_Witness ==
    /\ pc = "workers"
    /\ workers[3].pc = "finished"
    /\ new_population[3] # population[3]
    /\ workers[0].pc = "mutate"
    /\ workers[1].pc = "crossover"
    /\ workers[1].a = 3
    /\ workers[2].pc = "acquire"
    /\ new_population[2] # population[2]

\* Every worker of the generation has finished.
AllFinished ==
    /\ pc = "workers"
    /\ \A k \in Range0(pop_size) : workers[k].pc = "finished"

\* The value of the best tracker when the generation was forked.
PreviousBest == Evaluate(Completed)[ArgMin(Evaluate(Completed))]

\* C19: with each worker updating the shared best tracker under exclusive
\* access no update is lost: once all workers of a generation have finished
\* the tracker holds the minimum of its previous value and every fitness
\* selected in that generation, whatever the interleaving.
C19_NoLostUpdate ==
    /\ [](AllFinished =>
            /\ best_value = Min2(PreviousBest, new_fitness[ArgMin(new_fitness)])
            /\ func(best_vector) = best_value
            /\ lock = None)
    /\ [][pc = "workers" => best_value' <= best_value]_vars

C19_Witness ==
    /\ AllFinished
    /\ best_value < PreviousBest
    /\ \E k, m \in Range0(pop_size) :
          /\ new_fitness[k] < new_fitness[m]
          /\ new_fitness[m] < PreviousBest
          /\ new_fitness[k] = best_value

\* C21: the function as shipped is a stub: every call, whatever its
\* arguments, raises NotImplementedError as its first statement, before the
\* bounds are read, before a population exists and before func is called;
\* no DEResult is returned, so result.history of the next cell never exists.
C21_ShippedStubRaises ==
    /\ [][pc = "init" =>
            /\ pc' = "not_implemented"
            /\ UNCHANGED <<population, fitness, new_population, new_fitness,
                           generation, i, locals, result>>]_vars
    /\ [](pc \in {"init", "not_implemented"})
    /\ [](pc = "not_implemented" => ~ENABLED NextShipped)
    /\ [](/\ population = << >>
          /\ fitness = << >>
          /\ history = << >>
          /\ best_vector = << >>
          /\ best_value = None)

C21_Witness ==
    /\ pc = "not_implemented"
    /\ pop_size = 4
    /\ ~Malformed(bounds)
    /\ objective = "sphere"
    /\ max_gen = 1
    /\ history = << >>

\* C22: at every generation boundary and at return the best is consistent
\* with the population: best_value is the objective value of best_vector and
\* the least cached fitness of the current population, hence no individual
\* of any history snapshot has a lower objective value.
C22_BestConsistent ==
    pc \in {"generation", "done"} =>
        /\ best_value = func(best_vector)
        /\ best_value = fitness[ArgMin(fitness)]
        /\ \A k \in Range0(pop_size) : best_value <= fitness[k]
        /\ \A g \in 1 .. Len(history) :
              \A k \in Range0(pop_size) : best_value <= func(history[g][k])

C22_Witness ==
    /\ pc = "done"
    /\ generation = 2
    /\ best_value < Evaluate(InitialPopulation)[ArgMin(Evaluate(InitialPopulation))]
    /\ best_value < func(history[1][ArgMin(Evaluate(history[1]))])
    /\ \E k \in Range0(pop_size) : best_value < fitness[k]

\* C23: the fitness cache is consistent: at every generation boundary the
\* cached fitness of each slot is the objective value of the individual
\* stored in the slot, and selection stores the winning vector together
\* with its own fitness, never the loser's.
C23_FitnessCache ==
    /\ [](pc \in {"generation", "done"} =>
            \A k \in Range0(pop_size) : fitness[k] = func(population[k]))
    /\ [](pc \in {"mutate", "crossover", "select", "end_generation"} =>
            \A k \in Range0(pop_size) : new_fitness[k] = func(new_population[k]))
    /\ [][pc = "select" =>
            /\ new_fitness'[i] = Min2(func(trial_vector), fitness[i])
            /\ new_fitness'[i] = func(new_population'[i])
            /\ new_population'[i] \in {trial_vector, population[i]}]_vars

C23_Witness ==
    /\ pc = "generation"
    /\ generation = 2
    /\ \E k \in Range0(pop_size) :
          /\ fitness[k] < func(history[1][k])
          /\ func(history[1][k]) < func(InitialPopulation[k])
          /\ fitness[k] = func(population[k])

\* C24: a run that returns normally has called the objective function
\* pop_size times for the initial population and once per (generation,
\* target) pair for the trial, pop_size * (1 + max_gen) calls in all; the
\* fitness of a target is never evaluated again during selection.
C24_EvaluationCount ==
    /\ [](pc = "done" => evaluations = pop_size * (1 + max_gen))
    /\ [](pc \in {"mutate", "crossover", "select"} =>
            evaluations = pop_size * (1 + generation) + i)
    /\ [][pc = "init" => evaluations' = evaluations + pop_size]_vars
    /\ [][pc = "select" => evaluations' = evaluations + 1]_vars
    /\ [][pc \notin {"init", "select"} => evaluations' = evaluations]_vars

C24_Witness ==
    /\ pc = "done"
    /\ max_gen = MaxGen
    /\ generation = max_gen
    /\ evaluations = pop_size * (1 + max_gen)
    /\ history[MaxGen] # InitialPopulation

\* C25: with pop_size = 4, for every target index i the donors {a, b, c}
\* are exactly the three other indices, and mutation never fails.
C25_MinimumPopulation ==
    pop_size = 4 =>
        /\ pc \in {"crossover", "select"} =>
              /\ {a, b, c} = Range0(pop_size) \ {i}
              /\ Cardinality({a, b, c}) = 3
        /\ pc = "mutate" => ENABLED Mutate /\ ~ENABLED MutateFails
        /\ pc = "failed" => dimensions = 0

C25_Witness ==
    /\ pop_size = 4
    /\ pc = "select"
    /\ i = 3
    /\ {a, b, c} = {0, 1, 2}
    /\ dimensions = 1
    /\ objective = "sphere"

\* C26: OptimizerVerifier.verify returns the average, over all seeds_count
\* runs (seeds 0 .. seeds_count - 1), of the best value of each run.
C26_ReturnsAverage ==
    \A n \in 1 .. MaxSeedsCount :
        (pc = "returned" /\ optimizer_verifier.seeds_count = n) =>
            /\ Len(optimizer_verifier.results) = n
            /\ \A k \in Range0(n) :
                  optimizer_verifier.results[k + 1] = optimizer_verifier.optimizer[k]
            /\ optimizer_verifier.returned.num * n =
                  Sum(optimizer_verifier.results) * optimizer_verifier.returned.den


\* C27: FunctionVerifier.verify returns solved / total, where total counts
\* one test case per index of every entry of sizes and solved counts the
\* cases whose result equals the missing number; the result lies in [0, 1]
\* and is 0.0 when there is no test case.  The intended solution scores 1, a
\* function that always raises scores 0.
C27_ReturnsSuccessRate ==
    pc = "returned" =>
        LET v == function_verifier
        IN  /\ v.total = Sum(v.sizes)
            /\ v.solved \in 0 .. v.total
            /\ v.returned.den > 0
            /\ v.returned.num >= 0
            /\ v.returned.num <= v.returned.den
            /\ v.total = 0 => v.returned.num = 0
            /\ v.total > 0 =>
                  v.returned.num * v.total = v.solved * v.returned.den
            /\ v.func = "sum_formula" => v.solved = v.total
            /\ v.func = "raises" => v.solved = 0
            /\ v.func = "max_plus_one" =>
                  v.solved =
                      Cardinality({ k \in 1 .. Len(v.sizes) : v.sizes[k] >= 2 })

C27_Witness ==
    /\ pc = "returned"
    /\ function_verifier.func = "max_plus_one"
    /\ function_verifier.sizes = <<2, 3>>
    /\ function_verifier.returned = Fraction(2, 5)

\* C28: an Exception raised by the function under test never leaves verify:
\* the case is counted in total, not in solved, and verification goes on
\* with the remaining test cases up to the return.
C28_ExceptionIsCounted ==
    [][ /\ pc = "call"
            /\ RaisesException(function_verifier.func, function_verifier.data)
        => /\ pc' = "verify"
           /\ function_verifier'.total = function_verifier.total + 1
           /\ function_verifier'.solved = function_verifier.solved
           /\ function_verifier'.sizes = function_verifier.sizes
           /\ Resume(function_verifier'.sizes, function_verifier'.position,
                     function_verifier'.idx)
                 = Resume(function_verifier.sizes, function_verifier.position,
                          function_verifier.idx + 1) ]_vars

C28_Witness ==
    /\ pc = "returned"
    /\ function_verifier.func = "max_plus_one"
    /\ function_verifier.sizes = <<1, 2>>
    /\ function_verifier.total = 3
    /\ function_verifier.solved = 1

\* C29: the k-th test case is the k-th pair (n, idx) in the order of sizes
\* and of range(n); its data is an arrangement of 1..n without idx + 1, and
\* its missing is idx + 1.
C29_TestCases ==
    pc = "call" =>
        LET v == function_verifier
            n == v.sizes[v.position + 1]
        IN  /\ v.position \in 0 .. Len(v.sizes) - 1
            /\ v.idx \in 0 .. n - 1
            /\ v.total = SumTo(v.sizes, v.position) + v.idx
            /\ v.missing = v.idx + 1
            /\ Len(v.data) = n - 1
            /\ Elements(v.data) = (1 .. n) \ {v.missing}

C29_Witness ==
    /\ pc = "call"
    /\ function_verifier.sizes = <<2, 3>>
    /\ function_verifier.position = 1
    /\ function_verifier.idx = 1
    /\ function_verifier.data = <<3, 1>>


\* C30: FunctionParser.parse calls exec only on a response whose first
\* ```python block holds code that parses; when there is no such block,
\* when the block holds white space only, and when its code is a syntax
\* error, parse returns None and exec is never called.  A function is
\* returned only after exec, and it is the one named function_name.
C30_ExecOnlyAfterChecks ==
    pc # "parse" /\ pc # "extracted" =>
        LET text == parser.model_response
            Blocks == { pq \in (1 .. Len(text)) \X (1 .. Len(text)) :
                           /\ pq[1] < pq[2]
                           /\ text[pq[1]] = Opener
                           /\ IsFence(text[pq[2]])
                           /\ \A k \in 1 .. pq[1] - 1 : text[k] # Opener
                           /\ \A k \in pq[1] + 1 .. pq[2] - 1 : ~IsFence(text[k]) }
            Code == { text[k] : k \in
                         UNION { pq[1] + 1 .. pq[2] - 1 : pq \in Blocks } } \ {Space}
            Passes == Code # {} /\ "(" \notin Code
        IN  /\ Cardinality(Blocks) <= 1
            /\ parser.executed <=> Passes
            /\ ~Passes => pc = "returned" /\ parser.returned = "None"
            /\ pc = "returned" /\ Passes =>
                  /\ parser.returned = parser.function_name
                  /\ ("def " \o parser.function_name) \in Code

C30_Witness ==
    /\ pc = "returned"
    /\ parser.model_response = <<Opener, Space, "(", Fence>>
    /\ parser.function_str = [match |-> TRUE, group |-> <<"(">>]
    /\ ~parser.executed
    /\ parser.returned = "None"

=============================================================================
